---------------------------- MODULE Spec2Model ----------------------------
(***************************************************************************)
(* A model of KVAssets (src/assets.rs): a resolver that owns a serialized  *)
(* asset index and the credentials of a remote key-value store.  The index *)
(* is deserialized lazily into a RefCell<Option<AssetIndex>>; lookup_key   *)
(* normalizes a request path and looks it up; get_asset, get_kv_value and  *)
(* put_kv_value talk to the store over HTTP.                               *)
(*                                                                         *)
(* Strings are sequences of one-character strings.  The bincode blob is a  *)
(* sequence of tokens: a u64 field or one byte of a string.  The calls run *)
(* as tasks of a single-threaded executor: a task keeps the processor      *)
(* until it reaches an .await, and the code between two .await points is   *)
(* split into the steps that touch the RefCell.                            *)
(***************************************************************************)
EXTENDS Integers, Sequences, FiniteSets, TLC

\* ------------------------------------------------------------------ bounds

\* Longest request path handed to lookup_key / get_asset.
MaxPathLen == 3

\* Most entries of an index the index producer serializes.
MaxEntries == 2

\* Concurrent calls (tasks) on one resolver instance.
NumTasks == 2

\* The count of deserialization attempts on an instance saturates here.
MaxAttempts == 2

\* Longest request path and most index entries when calls overlap.
MaxConcPathLen == 2
MaxConcEntries == 1

\* ----------------------------------------------------------------- strings

Chars == {"/", "a"}

\* All strings over Chars of length at most n.
StringsUpTo(n) == UNION {[1..k -> Chars] : k \in 0..n}

Paths == StringsUpTo(MaxPathLen)

\* Whether sub occurs in s as a contiguous substring.
Contains(s, sub) ==
    \E i \in 0..(Len(s) - Len(sub)) : SubSeq(s, i + 1, i + Len(sub)) = sub

\* --------------------------------------------------------- asset metadata

\* AssetMetadata { path, modified, size }.
AssetMetadata(path, modified, size) ==
    [path |-> path, modified |-> modified, size |-> size]

\* The metadata values the index producer writes: the storage key differs
\* from the lookup key, as in test_lookup ("a/b" -> "a/b.txt").
MdA == AssetMetadata(<<"a", ".", "t">>, 10000, 10)
MdB == AssetMetadata(<<"b">>, 20000, 20)
Metas == {MdA, MdB}

\* The keys the index producer may write: normal keys, a nested key, and the
\* two keys a producer that does not normalize can write (empty, leading '/').
IndexKeys == {<<"a">>, <<"a", "/", "a">>, <<"/", "a">>, <<>>}

\* AssetIndex values: HashMap<String, AssetMetadata> with at most MaxEntries keys.
Indices ==
    UNION {[ks -> Metas] : ks \in {s \in SUBSET IndexKeys : Cardinality(s) <= MaxEntries}}

\* The empty HashMap.
EmptyIndex == [k \in {} |-> MdA]

\* HashMap::insert: a later insert of the same key replaces the value.
Insert(m, key, md) ==
    [k \in (DOMAIN m) \cup {key} |-> IF k = key THEN md ELSE m[k]]

\* ------------------------------------------------------------------ bincode

U64(n) == [k |-> "u64", n |-> n, c |-> ""]
Byte(ch) == [k |-> "byte", n |-> 0, c |-> ch]

\* A string: its length as u64, then its bytes.
EncString(s) == <<U64(Len(s))>> \o [i \in 1..Len(s) |-> Byte(s[i])]

EncMetadata(md) == EncString(md.path) \o <<U64(md.modified), U64(md.size)>>

RECURSIVE EncEntries(_, _)
EncEntries(m, order) ==
    IF order = <<>> THEN <<>>
    ELSE EncString(Head(order)) \o EncMetadata(m[Head(order)])
             \o EncEntries(m, Tail(order))

\* The orders in which a HashMap with key set ks may be iterated.
Orders(ks) ==
    {o \in [1..Cardinality(ks) -> ks] : \A i, j \in DOMAIN o : i # j => o[i] # o[j]}

\* bincode::serialize of an AssetIndex iterated in the given order.
Serialize(m, order) == <<U64(Len(order))>> \o EncEntries(m, order)

\* Reading results: ok, the value read, and the position after it.
ReadFail == [ok |-> FALSE, val |-> <<>>, next |-> 0]
ReadOk(v, next) == [ok |-> TRUE, val |-> v, next |-> next]

ReadU64(b, i) ==
    IF i <= Len(b) /\ b[i].k = "u64" THEN ReadOk(b[i].n, i + 1) ELSE ReadFail

ReadString(b, i) ==
    LET n == ReadU64(b, i) IN
    IF ~n.ok THEN ReadFail
    ELSE IF i + n.val > Len(b) THEN ReadFail
    ELSE IF \E j \in 1..n.val : b[i + j].k # "byte" THEN ReadFail
    ELSE ReadOk([j \in 1..n.val |-> b[i + j].c], i + n.val + 1)

ReadMetadata(b, i) ==
    LET p == ReadString(b, i) IN
    IF ~p.ok THEN ReadFail
    ELSE LET m == ReadU64(b, p.next) IN
         IF ~m.ok THEN ReadFail
         ELSE LET s == ReadU64(b, m.next) IN
              IF ~s.ok THEN ReadFail
              ELSE ReadOk(AssetMetadata(p.val, m.val, s.val), s.next)

RECURSIVE ReadEntries(_, _, _, _)
ReadEntries(b, i, n, acc) ==
    IF n = 0 THEN ReadOk(acc, i)
    ELSE LET key == ReadString(b, i) IN
         IF ~key.ok THEN ReadFail
         ELSE LET md == ReadMetadata(b, key.next) IN
              IF ~md.ok THEN ReadFail
              ELSE ReadEntries(b, md.next, n - 1, Insert(acc, key.val, md.val))

\* bincode::deserialize::<AssetIndex>: the entry count, then the entries;
\* bytes after the last entry are ignored.
Deserialize(b) ==
    LET n == ReadU64(b, 1) IN
    IF ~n.ok THEN ReadFail ELSE ReadEntries(b, 2, n.val, EmptyIndex)

\* The blobs a resolver may be built from: a serialized index, whole, or cut
\* short by its last token (a malformed blob; the empty blob among them).
Cuts == {"whole", "last"}

CutBlob(b, cut) ==
    CASE cut = "whole" -> b
      [] cut = "last" -> SubSeq(b, 1, Len(b) - 1)


\* ------------------------------------------------------------- credentials

CLOUDFLARE_KV_ENDPOINT == <<"https://api.cloudflare.com/client/v4">>

\* The credentials given to init (test_lookup: "123", "namespace", "token").
AccountId == <<"123">>
NamespaceId == <<"namespace">>
AuthToken == <<"token">>

\* ---------------------------------------------------------- pure decisions

\* A normalization that would remove every leading '/' (trim_start_matches).
RECURSIVE strip_prefix_all(_)
strip_prefix_all(path) ==
    IF path # <<>> /\ Head(path) = "/" THEN strip_prefix_all(Tail(path)) ELSE path

\* A variant of strip_prefix that strips nothing.
strip_prefix_kept(path) == path

\* path.strip_prefix('/').unwrap_or(path): one leading '/' removed.
strip_prefix(path) ==
    IF Len(path) > 0 /\ Head(path) = "/" THEN Tail(path) ELSE path

\* A lookup without the empty-key test: the index is consulted for any path.
is_empty_key_never(path, stripped) == FALSE

\* A variant of is_empty_key that tests the path before it is stripped.
is_empty_key_unstripped(path, stripped) == path = <<>>

\* The guard of lookup_key's early return: path.is_empty() on the stripped path.
is_empty_key(path, stripped) == stripped = <<>>

\* Option values.
None == [some |-> FALSE, val |-> <<>>]
Some(v) == [some |-> TRUE, val |-> v]

\* map.as_ref().unwrap().get(path).cloned()
map_get(m, path) == IF path \in DOMAIN m THEN Some(m[path]) ELSE None

\* A variant of needs_deserialize that deserializes on every call.
needs_deserialize_always(cell) == TRUE

\* (*map).is_none(): whether ensure_map has to deserialize.
needs_deserialize(cell) == ~cell.some

\* A variant of cell_after_deserialize that caches a failure as an empty index.
cell_after_deserialize_poisoned(cell, d) ==
    IF d.ok THEN [some |-> TRUE, val |-> d.val]
    ELSE [some |-> TRUE, val |-> [k \in {} |-> 0]]

\* The cell after a deserialization attempt with outcome d.
cell_after_deserialize(cell, d) == IF d.ok THEN Some(d.val) ELSE cell

\* The RefCell borrow flag: 0 unborrowed, -1 mutably borrowed, n > 0 shared.
drop_ref_mut(flag) == 0

\* A variant of drop_ref that keeps the shared borrow.
drop_ref_kept(flag) == flag

\* A shared borrow is given back.
drop_ref(flag) == flag - 1

\* A variant of is_success that accepts 200 only.
is_success_only_200(status) == status = 200

\* StatusCode::is_success: 200..=299.
is_success(status) == status >= 200 /\ status <= 299

\* The least TTL put_kv_value accepts.
MinTTL == 60

\* A variant of ttl_too_short that also refuses the least TTL.
ttl_too_short_inclusive(ttl) == ttl.some /\ ttl.val <= MinTTL

\* ttl < 60, for expiration_ttl = Some(ttl).
ttl_too_short(ttl) == ttl.some /\ ttl.val < MinTTL

\* Decimal digits of a natural number ({} of a u64).
Digit(d) ==
    CASE d = 0 -> "0" [] d = 1 -> "1" [] d = 2 -> "2" [] d = 3 -> "3"
      [] d = 4 -> "4" [] d = 5 -> "5" [] d = 6 -> "6" [] d = 7 -> "7"
      [] d = 8 -> "8" [] d = 9 -> "9"

RECURSIVE Decimal(_)
Decimal(n) ==
    IF n < 10 THEN <<Digit(n)>> ELSE Decimal(n \div 10) \o <<Digit(n % 10)>>

\* "{}/accounts/{}/storage/kv/namespaces/{}/values/{}"
values_url(key) ==
    CLOUDFLARE_KV_ENDPOINT \o <<"/accounts/">> \o AccountId
        \o <<"/storage/kv/namespaces/">> \o NamespaceId \o <<"/values/">> \o key

\* A suffix that would be appended also without a TTL (unwrap_or(0)).
ttl_suffix_always(ttl) == <<"?expiration_ttl=">> \o Decimal(ttl.val)

\* The query suffix of the PUT: "?expiration_ttl={}" or "".
ttl_suffix(ttl) ==
    IF ttl.some THEN <<"?expiration_ttl=">> \o Decimal(ttl.val) ELSE <<>>

\* "Bearer {}"
bearer(token) == <<"Bearer ">> \o token

NoRequest == [method |-> "", url |-> <<>>, auth |-> <<>>, body |-> <<>>]

\* The request get_kv_value sends.
get_request(key) ==
    [method |-> "GET", url |-> values_url(key), auth |-> bearer(AuthToken),
     body |-> <<>>]

\* The request put_kv_value sends.
put_request(key, val, ttl) ==
    [method |-> "PUT", url |-> values_url(key) \o ttl_suffix(ttl),
     auth |-> bearer(AuthToken), body |-> val]

\* ------------------------------------------------------- Debug formatting

\* char::escape_debug inside a string literal.
escape_debug(ch) ==
    CASE ch = "\"" -> <<"\\", "\"">>
      [] ch = "\\" -> <<"\\", "\\">>
      [] ch = "\n" -> <<"\\", "n">>
      [] OTHER -> <<ch>>

RECURSIVE escape_all(_)
escape_all(s) ==
    IF s = <<>> THEN <<>> ELSE escape_debug(Head(s)) \o escape_all(Tail(s))

\* {:?} of a String: quoted and escaped.
debug_string(s) == <<"\"">> \o escape_all(s) \o <<"\"">>

RECURSIVE debug_items(_)
debug_items(v) ==
    IF v = <<>> THEN <<>>
    ELSE IF Len(v) = 1 THEN debug_string(Head(v))
    ELSE debug_string(Head(v)) \o <<",", " ">> \o debug_items(Tail(v))

\* {:?} of a Vec<String>.
debug_vec(v) == <<"[">> \o debug_items(v) \o <<"]">>

LitWritingKey == <<"w", "r", "i", "t", "i", "n", "g", " ", "k", "e", "y", " ">>
LitErrors == <<":", " ", "e", "r", "r", "o", "r", "s", ":">>
LitMessages == <<" ", "m", "e", "s", "s", "a", "g", "e", "s", ":">>

\* "writing key {}: errors:{:?} messages:{:?}"
write_error_message(key, errors, messages) ==
    LitWritingKey \o key \o LitErrors \o debug_vec(errors)
        \o LitMessages \o debug_vec(messages)

\* ----------------------------------------------------------------- results

Pending == [tag |-> "Pending", err |-> "", val |-> <<>>]
Ok(v) == [tag |-> "Ok", err |-> "", val |-> v]
OkUnit == [tag |-> "OkUnit", err |-> "", val |-> <<>>]
OkNone == [tag |-> "OkNone", err |-> "", val |-> <<>>]
OkSome(v) == [tag |-> "OkSome", err |-> "", val |-> v]
Err(kind, detail) == [tag |-> "Err", err |-> kind, val |-> detail]
Panic(what) == [tag |-> "Panic", err |-> what, val |-> <<>>]

\* A variant of ok_option that reports a miss as an error.
ok_option_miss_is_error(md) ==
    IF md.some THEN OkSome(md.val) ELSE Err("KVKeyNotFound", <<>>)

\* Ok(md) of lookup_key for md an Option<AssetMetadata>.
ok_option(md) == IF md.some THEN OkSome(md.val) ELSE OkNone

\* A variant of put_result that judges by the errors list, not the flag.
put_result_by_errors(key, ack) ==
    IF ack.errors = <<>> THEN OkUnit
    ELSE Err("Message", write_error_message(key, ack.errors, ack.messages))

\* The result of put_kv_value for a parsed WriteKVResponse.
put_result(key, ack) ==
    IF ack.success THEN OkUnit
    ELSE Err("Message", write_error_message(key, ack.errors, ack.messages))

\* The result of get_kv_value for a response with the given status, before
\* its body is read: an error, or Pending when the body is to be read.
get_status_result(key, status) ==
    IF is_success(status) THEN Pending
    ELSE Err("KVKeyNotFound", [key |-> key, status |-> status])

\* A variant of get_asset_result that turns a failed fetch into Ok(None).
get_asset_result_swallowed(fetched) ==
    IF fetched.tag = "Ok" THEN OkSome(fetched.val) ELSE OkNone

\* What get_asset makes of the result of get_kv_value(&md.path).await.
get_asset_result(fetched) ==
    IF fetched.tag = "Ok" THEN OkSome(fetched.val) ELSE fetched

\* ------------------------------------------------------------------ inputs

Tasks == 1..NumTasks

\* Keys handed to get_kv_value / put_kv_value.
StoreKeys == {MdA.path, MdB.path}

\* Values handed to put_kv_value.
Values == {<<"v">>}

\* expiration_ttl arguments: None, or Some(ttl).
NoTTL == [some |-> FALSE, val |-> 0]
SomeTTL(ttl) == [some |-> TRUE, val |-> ttl]
TTLs == {NoTTL, SomeTTL(0), SomeTTL(59), SomeTTL(60), SomeTTL(61)}

\* HTTP statuses the store may answer a GET with, and a PUT with.
Statuses == {199, 200, 299, 300, 404}
PutStatuses == {200, 404}

\* Bodies of a 2xx answer to a GET.
Bodies == {<<>>, <<"x">>}

\* errors and messages lists of a WriteKVResponse.
ErrorLists == {<<>>, <<<<"e">>>>, <<<<"e", "\"">>, <<"a">>>>}
MessageLists == {<<>>, <<<<"a", "e">>>>}

\* Parsed WriteKVResponse values.
Acks == [success : BOOLEAN, errors : ErrorLists, messages : MessageLists]

NoAck == [success |-> FALSE, errors |-> <<>>, messages |-> <<>>]

\* ------------------------------------------------------------------- state

VARIABLES
    index,      \* KVAssets.index: the serialized index blob
    map,        \* KVAssets.map: the Option<AssetIndex> inside the RefCell
    borrow,     \* the RefCell's borrow flag
    task,       \* per task: the call it runs and where it stands
    running,    \* the task holding the processor (0: none, all tasks suspended)
    producer,   \* the index producer's side: the index serialized and the cut
    attempts    \* bincode::deserialize calls made so far (saturating)

vars == <<index, map, borrow, task, running, producer, attempts>>

\* A task that runs no call.
Idle ==
    [pc |-> "idle", op |-> "", path |-> <<>>, val |-> <<>>, ttl |-> NoTTL,
     norm |-> <<>>, key |-> <<>>, req |-> NoRequest, sent |-> 0, deser |-> 0,
     io |-> "none", status |-> 0, body |-> <<>>, ack |-> NoAck, res |-> Pending]

\* An init that would deserialize the blob while constructing.
init_eager(blob) ==
    /\ index = blob
    /\ map = (IF Deserialize(blob).ok THEN Some(Deserialize(blob).val) ELSE None)
    /\ borrow = 0

\* KVAssets::init: the fields stored, the cell empty; nothing is deserialized.
init(blob) ==
    /\ index = blob
    /\ map = None
    /\ borrow = 0

InitWith(ixs) ==
    \E m \in ixs : \E order \in Orders(DOMAIN m) : \E cut \in Cuts :
        /\ init(CutBlob(Serialize(m, order), cut))
        /\ producer = [index |-> m, cut |-> cut]
        /\ task = [t \in Tasks |-> Idle]
        /\ running = 0
        /\ attempts = 0

Init == InitWith(Indices)

\* ------------------------------------------------------------------- calls

\* A call starts when no task holds the processor.
CanStart(t) == running = 0 /\ task[t].pc = "idle"

\* The tasks after task t has entered a call at pc with its arguments.
Started(t, op, path, val, ttl, pc) ==
    [task EXCEPT ![t] =
        [Idle EXCEPT !.pc = pc, !.op = op, !.path = path, !.val = val, !.ttl = ttl]]

call_lookup_key(t, path) ==
    /\ CanStart(t)
    /\ task' = Started(t, "lookup_key", path, <<>>, NoTTL, "lookup_key")
    /\ running' = t
    /\ UNCHANGED <<index, map, borrow, producer, attempts>>

\* get_asset starts with self.lookup_key(key).
call_get_asset(t, path) ==
    /\ CanStart(t)
    /\ task' = Started(t, "get_asset", path, <<>>, NoTTL, "lookup_key")
    /\ running' = t
    /\ UNCHANGED <<index, map, borrow, producer, attempts>>

call_ensure_map(t) ==
    /\ CanStart(t)
    /\ task' = Started(t, "ensure_map", <<>>, <<>>, NoTTL, "ensure_map")
    /\ running' = t
    /\ UNCHANGED <<index, map, borrow, producer, attempts>>

\* A get_kv_value that would load the index before it reads the store.
call_get_kv_value_checked(t, key) ==
    /\ CanStart(t)
    /\ task' = Started(t, "get_kv_value", key, <<>>, NoTTL, "ensure_map")
    /\ running' = t
    /\ UNCHANGED <<index, map, borrow, producer, attempts>>

call_get_kv_value(t, key) ==
    /\ CanStart(t)
    /\ task' = Started(t, "get_kv_value", key, <<>>, NoTTL, "get_kv_value")
    /\ running' = t
    /\ UNCHANGED <<index, map, borrow, producer, attempts>>

call_put_kv_value(t, key, val, ttl) ==
    /\ CanStart(t)
    /\ task' = Started(t, "put_kv_value", key, val, ttl, "put_kv_value")
    /\ running' = t
    /\ UNCHANGED <<index, map, borrow, producer, attempts>>

\* The task's record when its call returns r.
Returned(rec, r) == [rec EXCEPT !.pc = "done", !.res = r]

\* A get_asset that would fetch the key it was asked for.
after_lookup_by_request_key(rec, r) ==
    IF rec.op = "get_asset" /\ r.tag = "OkSome"
    THEN [rec EXCEPT !.pc = "get_kv_value", !.key = rec.norm]
    ELSE Returned(rec, r)

\* A get_asset that would, on a miss, try the store with the normalized path.
after_lookup_fetch_on_miss(rec, r) ==
    IF rec.op = "get_asset" /\ r.tag \in {"OkSome", "OkNone"}
    THEN [rec EXCEPT !.pc = "get_kv_value",
                     !.key = IF r.tag = "OkSome" THEN r.val.path ELSE rec.norm]
    ELSE Returned(rec, r)

\* What the caller of lookup_key does with its result: lookup_key itself
\* returns it; get_asset returns a miss or an error, and fetches on a hit.
after_lookup(rec, r) ==
    IF rec.op = "get_asset" /\ r.tag = "OkSome"
    THEN [rec EXCEPT !.pc = "get_kv_value", !.key = r.val.path]
    ELSE Returned(rec, r)

\* lookup_key, up to the call of ensure_map: strip, and refuse an empty key.
lookup_key(t) ==
    /\ running = t
    /\ task[t].pc = "lookup_key"
    /\ LET stripped == strip_prefix(task[t].path) IN
       task' = [task EXCEPT ![t] =
                   IF is_empty_key(task[t].path, stripped)
                   THEN Returned(task[t], Err("EmptyKey", <<>>))
                   ELSE [task[t] EXCEPT !.pc = "ensure_map", !.norm = stripped]]
    /\ UNCHANGED <<index, map, borrow, running, producer, attempts>>

\* ensure_map: self.map.borrow_mut(), which panics when the cell is borrowed.
ensure_map_borrow(t) ==
    /\ running = t
    /\ task[t].pc = "ensure_map"
    /\ IF borrow # 0
       THEN /\ task' = [task EXCEPT ![t] = Returned(task[t], Panic("BorrowMutError"))]
            /\ UNCHANGED borrow
       ELSE /\ task' = [task EXCEPT ![t].pc = "ensure_map_load"]
            /\ borrow' = -1
    /\ UNCHANGED <<index, map, running, producer, attempts>>

\* Where a task goes when ensure_map returns Ok(()).
after_ensure_map(rec) ==
    IF rec.op = "ensure_map" THEN Returned(rec, OkUnit)
    ELSE [rec EXCEPT !.pc = "lookup_key_borrow"]

\* ensure_map under the mutable borrow: deserialize when the cell is empty,
\* return the error of a failed deserialization; the guard is dropped at the end.
ensure_map(t) ==
    /\ running = t
    /\ task[t].pc = "ensure_map_load"
    /\ IF needs_deserialize(map)
       THEN LET d == Deserialize(index) IN
            /\ map' = cell_after_deserialize(map, d)
            /\ attempts' = IF attempts < MaxAttempts THEN attempts + 1 ELSE attempts
            /\ task' = [task EXCEPT ![t] =
                  LET rec == [task[t] EXCEPT !.deser = @ + 1] IN
                  IF d.ok THEN after_ensure_map(rec)
                  ELSE Returned(rec, Err("DeserializeAssets", <<>>))]
       ELSE /\ map' = map
            /\ attempts' = attempts
            /\ task' = [task EXCEPT ![t] = after_ensure_map(task[t])]
    /\ borrow' = drop_ref_mut(borrow)
    /\ UNCHANGED <<index, running, producer>>

\* lookup_key: self.map.borrow(), which panics when the cell is mutably borrowed.
lookup_key_borrow(t) ==
    /\ running = t
    /\ task[t].pc = "lookup_key_borrow"
    /\ IF borrow < 0
       THEN /\ task' = [task EXCEPT ![t] = Returned(task[t], Panic("BorrowError"))]
            /\ UNCHANGED borrow
       ELSE /\ task' = [task EXCEPT ![t].pc = "lookup_key_get"]
            /\ borrow' = borrow + 1
    /\ UNCHANGED <<index, map, running, producer, attempts>>

\* lookup_key: map.as_ref().unwrap().get(path).cloned(), Ok(md); the shared
\* borrow is dropped on return.
lookup_key_get(t) ==
    /\ running = t
    /\ task[t].pc = "lookup_key_get"
    /\ task' = [task EXCEPT ![t] =
          IF map.some THEN after_lookup(task[t], ok_option(map_get(map.val, task[t].norm)))
          ELSE Returned(task[t], Panic("unwrap on None"))]
    /\ borrow' = drop_ref(borrow)
    /\ UNCHANGED <<index, map, running, producer, attempts>>

\* get_kv_value up to send().await: the GET is sent and the task suspends.
get_kv_value(t) ==
    /\ running = t
    /\ task[t].pc = "get_kv_value"
    /\ task' = [task EXCEPT ![t] =
          LET key == IF task[t].op = "get_asset" THEN task[t].key ELSE task[t].path IN
          [task[t] EXCEPT !.pc = "get_await_send", !.key = key,
                          !.req = get_request(key), !.sent = @ + 1]]
    /\ running' = 0
    /\ UNCHANGED <<index, map, borrow, producer, attempts>>

\* A fetch that would send its request once more after a transport failure.
after_get_kv_value_retry(rec, r) ==
    IF r.tag = "Err" /\ r.err = "KVHttp" /\ rec.sent < 2
    THEN [rec EXCEPT !.pc = "get_kv_value"]
    ELSE Returned(rec, IF rec.op = "get_asset" THEN get_asset_result(r) ELSE r)

\* What the caller of get_kv_value returns for its result.
after_get_kv_value(rec, r) ==
    Returned(rec, IF rec.op = "get_asset" THEN get_asset_result(r) ELSE r)

\* send().await fails: Error::KVHttp.
get_send_failed(t) ==
    /\ running = 0
    /\ task[t].pc = "get_await_send"
    /\ task' = [task EXCEPT ![t] =
          after_get_kv_value([task[t] EXCEPT !.io = "send_failed"], Err("KVHttp", <<>>))]
    /\ running' = t
    /\ UNCHANGED <<index, map, borrow, producer, attempts>>

\* send().await yields a response: a non-success status is KVKeyNotFound,
\* otherwise the task awaits response.bytes().
get_response(t, status) ==
    /\ running = 0
    /\ task[t].pc = "get_await_send"
    /\ LET r == get_status_result(task[t].key, status)
           rec == [task[t] EXCEPT !.io = "status", !.status = status] IN
       IF r.tag = "Pending"
       THEN /\ task' = [task EXCEPT ![t] = [rec EXCEPT !.pc = "get_await_bytes"]]
            /\ running' = 0
       ELSE /\ task' = [task EXCEPT ![t] = after_get_kv_value(rec, r)]
            /\ running' = t
    /\ UNCHANGED <<index, map, borrow, producer, attempts>>

\* response.bytes().await fails: Error::KVHttp.
get_bytes_failed(t) ==
    /\ running = 0
    /\ task[t].pc = "get_await_bytes"
    /\ task' = [task EXCEPT ![t] =
          after_get_kv_value([task[t] EXCEPT !.io = "body_failed"], Err("KVHttp", <<>>))]
    /\ running' = t
    /\ UNCHANGED <<index, map, borrow, producer, attempts>>

\* response.bytes().await yields the body.
get_bytes(t, body) ==
    /\ running = 0
    /\ task[t].pc = "get_await_bytes"
    /\ task' = [task EXCEPT ![t] =
          after_get_kv_value([task[t] EXCEPT !.io = "body", !.body = body], Ok(body))]
    /\ running' = t
    /\ UNCHANGED <<index, map, borrow, producer, attempts>>

\* put_kv_value up to send().await: the TTL check while the URL is built,
\* then the PUT is sent and the task suspends.
put_kv_value(t) ==
    /\ running = t
    /\ task[t].pc = "put_kv_value"
    /\ IF ttl_too_short(task[t].ttl)
       THEN /\ task' = [task EXCEPT ![t] = Returned(task[t], Err("TTLTooShort", <<>>))]
            /\ running' = t
       ELSE /\ task' = [task EXCEPT ![t] =
                  [task[t] EXCEPT !.pc = "put_await_send", !.key = task[t].path,
                      !.req = put_request(task[t].path, task[t].val, task[t].ttl),
                      !.sent = @ + 1]]
            /\ running' = 0
    /\ UNCHANGED <<index, map, borrow, producer, attempts>>

\* send().await fails: Error::KVHttp.
put_send_failed(t) ==
    /\ running = 0
    /\ task[t].pc = "put_await_send"
    /\ task' = [task EXCEPT ![t] =
          Returned([task[t] EXCEPT !.io = "send_failed"], Err("KVHttp", <<>>))]
    /\ running' = t
    /\ UNCHANGED <<index, map, borrow, producer, attempts>>

\* A PUT that would test the status as get_kv_value does.
put_response_checked(t, status) ==
    /\ running = 0
    /\ task[t].pc = "put_await_send"
    /\ task' = [task EXCEPT ![t] =
          IF is_success(status)
          THEN [task[t] EXCEPT !.pc = "put_await_json", !.io = "status",
                               !.status = status]
          ELSE Returned([task[t] EXCEPT !.io = "status", !.status = status],
                        get_status_result(task[t].key, status))]
    /\ running' = IF is_success(status) THEN 0 ELSE t
    /\ UNCHANGED <<index, map, borrow, producer, attempts>>

\* send().await yields a response, whatever its status: the task awaits
\* response.json::<WriteKVResponse>().
put_response(t, status) ==
    /\ running = 0
    /\ task[t].pc = "put_await_send"
    /\ task' = [task EXCEPT ![t].pc = "put_await_json", ![t].io = "status",
                             ![t].status = status]
    /\ running' = 0
    /\ UNCHANGED <<index, map, borrow, producer, attempts>>

\* json().await fails (the body cannot be read or parsed): Error::KVHttp.
put_json_failed(t) ==
    /\ running = 0
    /\ task[t].pc = "put_await_json"
    /\ task' = [task EXCEPT ![t] =
          Returned([task[t] EXCEPT !.io = "body_failed"], Err("KVHttp", <<>>))]
    /\ running' = t
    /\ UNCHANGED <<index, map, borrow, producer, attempts>>

\* json().await yields the acknowledgment: Ok(()) or Error::Message.
put_json(t, ack) ==
    /\ running = 0
    /\ task[t].pc = "put_await_json"
    /\ task' = [task EXCEPT ![t] =
          Returned([task[t] EXCEPT !.io = "body", !.ack = ack],
                   put_result(task[t].key, ack))]
    /\ running' = t
    /\ UNCHANGED <<index, map, borrow, producer, attempts>>

\* The call's result is handed to the caller; the task is free again.
return(t) ==
    /\ running = t
    /\ task[t].pc = "done"
    /\ task' = [task EXCEPT ![t] = Idle]
    /\ running' = 0
    /\ UNCHANGED <<index, map, borrow, producer, attempts>>

\* ----------------------------------------------------------- specifications

\* One call at a time on the resolver.
Next ==
    \E t \in {1} :
        \/ \E p \in Paths : call_lookup_key(t, p)
        \/ \E p \in Paths : call_get_asset(t, p)
        \/ call_ensure_map(t)
        \/ \E k \in StoreKeys : call_get_kv_value(t, k)
        \/ \E k \in StoreKeys : \E v \in Values : \E ttl \in TTLs :
               call_put_kv_value(t, k, v, ttl)
        \/ lookup_key(t)
        \/ ensure_map_borrow(t)
        \/ ensure_map(t)
        \/ lookup_key_borrow(t)
        \/ lookup_key_get(t)
        \/ get_kv_value(t)
        \/ get_send_failed(t)
        \/ \E s \in Statuses : get_response(t, s)
        \/ get_bytes_failed(t)
        \/ \E b \in Bodies : get_bytes(t, b)
        \/ put_kv_value(t)
        \/ put_send_failed(t)
        \/ \E s \in PutStatuses : put_response(t, s)
        \/ put_json_failed(t)
        \/ \E a \in Acks : put_json(t, a)
        \/ return(t)

Spec == Init /\ [][Next]_vars

\* Overlapping calls: every task may be inside a call; the calls that touch
\* the index cell, and the store fetch get_asset makes between two of them.
ConcPaths == StringsUpTo(MaxConcPathLen)
ConcKeys == {<<"a">>, <<"a", "/", "a">>}
ConcIndices ==
    {m \in Indices : DOMAIN m \subseteq ConcKeys /\ Cardinality(DOMAIN m) <= MaxConcEntries}

InitConc == InitWith(ConcIndices)

NextConc ==
    \E t \in Tasks :
        \/ \E p \in ConcPaths : call_lookup_key(t, p)
        \/ \E p \in ConcPaths : call_get_asset(t, p)
        \/ call_ensure_map(t)
        \/ lookup_key(t)
        \/ ensure_map_borrow(t)
        \/ ensure_map(t)
        \/ lookup_key_borrow(t)
        \/ lookup_key_get(t)
        \/ get_kv_value(t)
        \/ get_send_failed(t)
        \/ \E s \in {200, 404} : get_response(t, s)
        \/ get_bytes_failed(t)
        \/ \E b \in {<<"x">>} : get_bytes(t, b)
        \/ return(t)

SpecConc == InitConc /\ [][NextConc]_vars

\* ------------------------------------------------------------------ claims

\* The request path with one leading '/' removed, stated apart from the code.
NormalForm(p) == IF p # <<>> /\ p[1] = "/" THEN SubSeq(p, 2, Len(p)) ELSE p

\* Whether the resolver was built from a well-formed blob (a whole serialized index).
WellFormed == producer.cut = "whole"

\* Task t has finished a call of op and holds its result.
Finished(t, op) == task[t].pc = "done" /\ task[t].op = op

\* A key as the index producer documents it: not empty, no leading '/'.
NormalKey(k) == k # <<>> /\ k[1] # "/"

\* C1 as stated: with a well-formed blob, for EVERY key k of the index,
\* lookup_key(k) and lookup_key("/" + k) return Ok(Some(m)), m the metadata
\* stored under k.
C1_EveryKey ==
    \A t \in Tasks :
        (Finished(t, "lookup_key") /\ WellFormed) =>
            \A k \in DOMAIN producer.index :
                (task[t].path = k \/ task[t].path = <<"/">> \o k) =>
                    /\ task[t].res.tag = "OkSome"
                    /\ task[t].res.val = producer.index[k]

\* C1 amended: with a well-formed blob, for every key k of the index that is
\* not empty and does not start with '/', lookup_key(k) and
\* lookup_key("/" + k) both return Ok(Some(m)), m exactly the metadata stored
\* under k, in every reachable state of the resolver (first call or later).
C1_NormalKeys ==
    \A t \in Tasks :
        (Finished(t, "lookup_key") /\ WellFormed) =>
            \A k \in DOMAIN producer.index :
                (NormalKey(k) /\ (task[t].path = k \/ task[t].path = <<"/">> \o k)) =>
                    /\ task[t].res.tag = "OkSome"
                    /\ task[t].res.val = producer.index[k]

\* C1 witness: lookup_key("/a") has hit on a two-entry index with the key "a"
\* that an earlier call had loaded.
C1_Witness ==
    \E t \in Tasks :
        /\ Finished(t, "lookup_key") /\ WellFormed
        /\ task[t].deser = 0 /\ map.some
        /\ task[t].path = <<"/", "a">>
        /\ <<"a">> \in DOMAIN producer.index
        /\ Cardinality(DOMAIN producer.index) = 2
        /\ task[t].res = OkSome(producer.index[NormalForm(task[t].path)])

\* C2: with a well-formed blob, lookup_key(p) returns Ok(None), never an
\* error, for every p whose normal form is not empty and not a key of the index.
C2_MissIsNone ==
    \A t \in Tasks :
        (/\ Finished(t, "lookup_key") /\ WellFormed
         /\ NormalForm(task[t].path) # <<>>
         /\ NormalForm(task[t].path) \notin DOMAIN producer.index)
            => task[t].res = OkNone

\* C2 witness: a miss on a non-empty index, for a path with a leading '/'
\* whose unstripped form is a key.
C2_Witness ==
    \E t \in Tasks :
        /\ Finished(t, "lookup_key") /\ WellFormed
        /\ task[t].path = <<"/", "/", "a">>
        /\ <<"/", "a">> \notin DOMAIN producer.index
        /\ <<"a">> \in DOMAIN producer.index
        /\ task[t].res = OkNone

\* C3: lookup_key("") and lookup_key("/") fail with EmptyKey, whether the
\* index is loaded or not (and whatever the blob).
C3_EmptyKey ==
    \A t \in Tasks :
        (Finished(t, "lookup_key") /\ task[t].path \in {<<>>, <<"/">>})
            => task[t].res = Err("EmptyKey", <<>>)

\* C3 witness: lookup_key("/") fails with EmptyKey on a loaded index that
\* holds the empty key.
C3_Witness ==
    \E t \in Tasks :
        /\ Finished(t, "lookup_key")
        /\ task[t].path = <<"/">>
        /\ map.some /\ <<>> \in DOMAIN map.val
        /\ task[t].res = Err("EmptyKey", <<>>)

\* Whether lookup_key(p) hits on the index the producer serialized.
IndexHit(p) ==
    WellFormed /\ NormalForm(p) # <<>> /\ NormalForm(p) \in DOMAIN producer.index

\* Whether lookup_key(p) misses on it: Ok(None).
IndexMiss(p) ==
    WellFormed /\ NormalForm(p) # <<>> /\ NormalForm(p) \notin DOMAIN producer.index

\* A 2xx status, stated apart from the code.
Is2xx(status) == status \div 100 = 2

\* C4: get_asset returns Ok(None) only when the index lookup misses (and then
\* sends nothing); after an index hit a failed fetch is returned as its error
\* (KVKeyNotFound for a non-success status, KVHttp for a transport failure),
\* never as Ok(None), and a fetch that succeeds gives Ok(Some(body)).
C4_GetAsset ==
    \A t \in Tasks :
        Finished(t, "get_asset") =>
            LET r == task[t] IN
            /\ (r.res.tag = "OkNone") <=> IndexMiss(r.path)
            /\ r.res.tag = "OkNone" => r.sent = 0
            /\ IndexHit(r.path) =>
                  /\ r.sent = 1
                  /\ r.io \in {"send_failed", "status", "body_failed", "body"}
                  /\ r.io \in {"send_failed", "body_failed"} =>
                        (r.res.tag = "Err" /\ r.res.err = "KVHttp")
                  /\ r.io = "status" =>
                        /\ ~Is2xx(r.status)
                        /\ r.res.tag = "Err" /\ r.res.err = "KVKeyNotFound"
                        /\ r.res.val.status = r.status
                  /\ r.io = "body" =>
                        (Is2xx(r.status) /\ r.res.tag = "OkSome" /\ r.res.val = r.body)

\* C4 witness: an index hit whose fetch is answered 404: get_asset returns
\* KVKeyNotFound with that status.
C4_Witness ==
    \E t \in Tasks :
        /\ Finished(t, "get_asset") /\ IndexHit(task[t].path)
        /\ task[t].io = "status" /\ task[t].status = 404
        /\ task[t].res.tag = "Err" /\ task[t].res.err = "KVKeyNotFound"

\* C5: get_kv_value(key) returns KVKeyNotFound(key, status) for a response
\* with a non-2xx status, KVHttp when no response is obtained or the body of
\* a 2xx response cannot be read, Ok(body) for a 2xx response whose body is
\* read; nothing else (no panic, no Message error).
C5_GetKvValue ==
    \A t \in Tasks :
        Finished(t, "get_kv_value") =>
            LET r == task[t] IN
            /\ r.io \in {"send_failed", "status", "body_failed", "body"}
            /\ r.io = "send_failed" => (r.res.tag = "Err" /\ r.res.err = "KVHttp")
            /\ r.io = "status" =>
                  /\ ~Is2xx(r.status)
                  /\ r.res.tag = "Err" /\ r.res.err = "KVKeyNotFound"
                  /\ r.res.val = [key |-> r.path, status |-> r.status]
            /\ r.io = "body_failed" =>
                  (Is2xx(r.status) /\ r.res.tag = "Err" /\ r.res.err = "KVHttp")
            /\ r.io = "body" =>
                  (Is2xx(r.status) /\ r.res.tag = "Ok" /\ r.res.val = r.body)

\* C5 witness: a 404 answer gives KVKeyNotFound with the key and 404.
C5_Witness ==
    \E t \in Tasks :
        /\ Finished(t, "get_kv_value")
        /\ task[t].io = "status" /\ task[t].status = 404
        /\ task[t].res = Err("KVKeyNotFound", [key |-> task[t].path, status |-> 404])

\* Task t is in a put_kv_value call that has passed its TTL check.
PutChecked(t) == task[t].op = "put_kv_value" /\ task[t].pc # "put_kv_value"

\* C6: put_kv_value with Some(t), t < 60, fails with TTLTooShort and sends
\* nothing, whatever the key and the value; with Some(t), t >= 60, or None it
\* does not fail with TTLTooShort and sends one PUT.
C6_TTL ==
    \A t \in Tasks :
        PutChecked(t) =>
            LET r == task[t] IN
            IF r.ttl.some /\ r.ttl.val < 60
            THEN /\ r.pc = "done" /\ r.res = Err("TTLTooShort", <<>>)
                 /\ r.sent = 0 /\ r.req = NoRequest
            ELSE /\ r.sent = 1 /\ r.req.method = "PUT" /\ r.req.body = r.val
                 /\ ~(r.res.tag = "Err" /\ r.res.err = "TTLTooShort")

\* C6 witness: Some(59) has failed with TTLTooShort and nothing was sent.
C6_Witness ==
    \E t \in Tasks :
        /\ PutChecked(t) /\ task[t].ttl = SomeTTL(59)
        /\ task[t].res = Err("TTLTooShort", <<>>) /\ task[t].sent = 0

\* A second C6 case: Some(60) has sent its PUT.
C6_Witness60 ==
    \E t \in Tasks :
        /\ PutChecked(t) /\ task[t].ttl = SomeTTL(60)
        /\ task[t].sent = 1 /\ task[t].req.method = "PUT"

\* The strings of a list.
Elements(list) == {list[i] : i \in DOMAIN list}

\* The characters {:?} writes escaped.
Escaped == {"\"", "\\", "\n"}

\* Whether a string is written by {:?} as it is, between the quotes.
Plain(str) == \A i \in DOMAIN str : str[i] \notin Escaped

\* Task t has finished a put_kv_value whose response body parsed as an
\* acknowledgment.
Acknowledged(t) == Finished(t, "put_kv_value") /\ task[t].io = "body"

\* The part of C7 that does not depend on how the lists are written: Ok(())
\* if and only if the success flag is true, a Message error otherwise, whose
\* text contains the key; KVHttp for a send failure or an unparsable body.
C7_Outcome(t) ==
    LET r == task[t] IN
    /\ Acknowledged(t) =>
          /\ (r.res.tag = "OkUnit") <=> r.ack.success
          /\ ~r.ack.success =>
                /\ r.res.tag = "Err" /\ r.res.err = "Message"
                /\ Contains(r.res.val, r.path)
    /\ (Finished(t, "put_kv_value") /\ r.io \in {"send_failed", "body_failed"}) =>
          (r.res.tag = "Err" /\ r.res.err = "KVHttp")

C8_LoadedIsTerminal ==
    [][/\ map.some =>
             /\ map' = map
             /\ attempts' = attempts
             /\ \A t \in Tasks : task'[t].deser <= task[t].deser
       /\ map'.some => attempts' = 1]_vars

\* C8 witness: ensure_map called on a loaded index returns Ok(()) without
\* deserializing (test_lookup's last assertion).
C8_Witness ==
    \E t \in Tasks :
        /\ Finished(t, "ensure_map") /\ task[t].res = OkUnit
        /\ task[t].deser = 0 /\ map.some /\ attempts = 1

\* C9: with a malformed blob the cell stays 'not yet loaded', and every
\* lookup_key call whose stripped path is not empty fails with
\* DeserializeAssets after one deserialization attempt of its own, however
\* many attempts failed before.
C9_FailureNotCached ==
    ~WellFormed =>
        /\ ~map.some
        /\ \A t \in Tasks :
              (Finished(t, "lookup_key") /\ NormalForm(task[t].path) # <<>>) =>
                  /\ task[t].res = Err("DeserializeAssets", <<>>)
                  /\ task[t].deser = 1

\* C9 witness: a lookup_key that failed with DeserializeAssets on an instance
\* where a deserialization had failed before.
C9_Witness ==
    \E t \in Tasks :
        /\ ~WellFormed /\ attempts >= 2 /\ ~map.some
        /\ Finished(t, "lookup_key")
        /\ task[t].res = Err("DeserializeAssets", <<>>) /\ task[t].deser = 1

\* The result of lookup_key(p) run alone on a fresh resolver.
LookupAlone(p) ==
    IF NormalForm(p) = <<>> THEN Err("EmptyKey", <<>>)
    ELSE IF ~WellFormed THEN Err("DeserializeAssets", <<>>)
    ELSE IF NormalForm(p) \in DOMAIN producer.index
         THEN OkSome(producer.index[NormalForm(p)])
    ELSE OkNone

\* C10: with overlapping calls on one instance, no call meets a conflicting
\* borrow of the cell (no BorrowMutError / BorrowError panic, and no borrow is
\* held while all tasks are suspended), the cell is empty or holds the whole
\* index, and every lookup_key returns what it returns when run alone.
C10_OverlappingLookups ==
    /\ \A t \in Tasks : task[t].res.tag # "Panic"
    /\ borrow \in {-1, 0, 1}
    /\ running = 0 => borrow = 0
    /\ map.some => (WellFormed /\ map.val = producer.index)
    /\ \A t \in Tasks :
          Finished(t, "lookup_key") => task[t].res = LookupAlone(task[t].path)

\* C10 witness: a lookup_key has hit while another task's get_asset, which
\* made the first deserialization, is suspended in its store fetch.
C10_Witness ==
    \E t1, t2 \in Tasks :
        /\ t1 # t2
        /\ task[t1].op = "get_asset" /\ task[t1].deser = 1
        /\ task[t1].pc \in {"get_await_send", "get_await_bytes"}
        /\ Finished(t2, "lookup_key") /\ task[t2].deser = 0
        /\ task[t2].res.tag = "OkSome"

\* C11: init only constructs: as long as no call has attempted a
\* deserialization the cell is 'not yet loaded' and no borrow is left on it,
\* whatever the blob (also a malformed one); a DeserializeAssets error is
\* only ever the result of a call that made its one deserialization attempt
\* on a malformed blob: ensure_map itself, or a lookup_key / get_asset whose
\* normalized path is not empty. It never comes from a store call.
C11_InitIsPure ==
    /\ attempts = 0 => ~map.some
    /\ (attempts = 0 /\ running = 0) => borrow = 0
    /\ \A t \in Tasks :
          (task[t].res.tag = "Err" /\ task[t].res.err = "DeserializeAssets") =>
              /\ ~WellFormed /\ attempts >= 1
              /\ task[t].deser = 1 /\ task[t].sent = 0
              /\ task[t].op \in {"lookup_key", "get_asset", "ensure_map"}
              /\ task[t].op # "ensure_map" => NormalForm(task[t].path) # <<>>

\* C11 witness: a resolver constructed from a malformed blob has completed a
\* store read, and the blob is still undetected: nothing was deserialized
\* and the cell is 'not yet loaded'.
C11_Witness ==
    \E t \in Tasks :
        /\ ~WellFormed /\ attempts = 0 /\ ~map.some
        /\ Finished(t, "get_kv_value") /\ task[t].res.tag = "Ok"

\* The URL of the value stored under key, written out.
ExpectedUrl(key) ==
    <<"https://api.cloudflare.com/client/v4", "/accounts/", "123",
      "/storage/kv/namespaces/", "namespace", "/values/">> \o key

\* C12: when get_asset has sent a request, its lookup hit an entry of the
\* index, and the request is a GET for the storage key metadata.path of that
\* entry (neither the path it was called with nor its normalized form); a
\* KVKeyNotFound it returns carries that same metadata.path as its key.
C12_FetchesMetadataPath ==
    \A t \in Tasks :
        (task[t].op = "get_asset" /\ task[t].sent >= 1) =>
            /\ IndexHit(task[t].path)
            /\ LET r == task[t]
                   md == producer.index[NormalForm(r.path)] IN
               /\ r.key = md.path
               /\ r.req.method = "GET"
               /\ r.req.url = ExpectedUrl(md.path)
               /\ (r.res.tag = "Err" /\ r.res.err = "KVKeyNotFound") =>
                     r.res.val.key = md.path

\* C12 witness: get_asset("/a") on an index that maps "a" to the metadata
\* with path "a.t" was answered 404: the KVKeyNotFound names "a.t", which
\* is neither "/a" nor "a".
C12_Witness ==
    \E t \in Tasks :
        /\ Finished(t, "get_asset") /\ WellFormed
        /\ task[t].path = <<"/", "a">>
        /\ <<"a">> \in DOMAIN producer.index
        /\ producer.index[<<"a">>].path = <<"a", ".", "t">>
        /\ task[t].req.url = ExpectedUrl(<<"a", ".", "t">>)
        /\ task[t].res = Err("KVKeyNotFound", [key |-> <<"a", ".", "t">>, status |-> 404])

\* C13: no request is issued outside the store path. A lookup_key (and the
\* ensure_map it calls) never sends nor receives anything; a get_asset has
\* sent something only after its lookup hit the index, and one that returned
\* Ok(None), EmptyKey or DeserializeAssets has sent nothing.
C13_NoRequestOutsideStore ==
    \A t \in Tasks :
        LET r == task[t] IN
        /\ r.op \in {"lookup_key", "ensure_map"} =>
              (r.sent = 0 /\ r.req = NoRequest /\ r.io = "none")
        /\ r.op = "get_asset" =>
              /\ r.sent = 0 => (r.req = NoRequest /\ r.io = "none")
              /\ r.sent >= 1 => (r.req.method = "GET" /\ NormalForm(r.path) # <<>>
                                 /\ NormalForm(r.path) \in DOMAIN producer.index
                                 /\ producer.cut = "whole")
              /\ (r.pc = "done" /\ r.res.tag = "OkNone") => r.sent = 0
              /\ (r.pc = "done" /\ r.res.tag = "Err"
                    /\ r.res.err \in {"EmptyKey", "DeserializeAssets"}) => r.sent = 0

\* C13 witness: a get_asset whose lookup missed on a loaded, non-empty index
\* has returned Ok(None) without a request.
C13_Witness ==
    \E t \in Tasks :
        /\ Finished(t, "get_asset") /\ map.some /\ map.val # EmptyIndex
        /\ task[t].norm # <<>> /\ task[t].norm \notin DOMAIN map.val
        /\ task[t].res = OkNone
        /\ task[t].sent = 0 /\ task[t].req = NoRequest

\* C14: a call of get_kv_value, put_kv_value or get_asset sends at most one
\* HTTP request (it holds a request exactly when it has sent one), and a
\* request that failed ends the call at once with its failure: after a
\* transport failure the call has returned KVHttp, after a non-2xx answer a
\* read has returned KVKeyNotFound, each with that one request sent.
C14_AtMostOneRequest ==
    \A t \in Tasks :
        LET r == task[t] IN
        /\ r.sent \in {0, 1}
        /\ (r.sent = 1) <=> (r.req # NoRequest)
        /\ r.io # "none" => r.sent = 1
        /\ r.io \in {"send_failed", "body_failed"} =>
              /\ r.pc = "done" /\ r.sent = 1
              /\ r.res.tag = "Err" /\ r.res.err = "KVHttp"
        /\ (r.op \in {"get_kv_value", "get_asset"} /\ r.io = "status"
              /\ r.status \div 100 # 2) =>
              /\ r.pc = "done" /\ r.sent = 1
              /\ r.res.tag = "Err" /\ r.res.err = "KVKeyNotFound"

\* C14 witness: a get_asset whose GET failed in transport has returned
\* KVHttp with one request sent.
C14_Witness ==
    \E t \in Tasks :
        /\ Finished(t, "get_asset") /\ task[t].io = "send_failed"
        /\ task[t].sent = 1 /\ task[t].req.method = "GET"
        /\ task[t].res.tag = "Err" /\ task[t].res.err = "KVHttp"

\* The decimal digits, and the two digits of a number from 10 to 99.
DigitChars == <<"0", "1", "2", "3", "4", "5", "6", "7", "8", "9">>
TwoDigits(n) == <<DigitChars[(n \div 10) + 1], DigitChars[(n % 10) + 1]>>

\* C15: every request carries the header Authorization: Bearer {token}; a
\* GET goes to {base}/accounts/{account_id}/storage/kv/namespaces/
\* {namespace_id}/values/{key}; the PUT of put_kv_value(key, _, ttl) goes
\* to the URL a GET for the same key goes to, followed by
\* ?expiration_ttl={t} exactly when ttl is Some(t), and then t >= 60; with
\* None the URL has no query suffix.
C15_PutUrl ==
    \A t \in Tasks :
        task[t].sent = 1 =>
            LET r == task[t] IN
            /\ r.req.auth = <<"Bearer ", "token">>
            /\ r.op \in {"get_kv_value", "get_asset"} =>
                  (r.req.method = "GET" /\ r.req.url = ExpectedUrl(r.key))
            /\ r.op = "put_kv_value" =>
                  /\ r.req.method = "PUT" /\ r.key = r.path
                  /\ SubSeq(r.req.url, 1, Len(get_request(r.key).url))
                        = get_request(r.key).url
                  /\ r.req.auth = get_request(r.key).auth
                  /\ ~r.ttl.some => r.req.url = ExpectedUrl(r.key)
                  /\ r.ttl.some =>
                        /\ r.ttl.val >= 60
                        /\ r.ttl.val <= 99 =>
                              r.req.url = ExpectedUrl(r.key)
                                  \o <<"?expiration_ttl=">> \o TwoDigits(r.ttl.val)

\* C15 witness: a PUT with Some(61) has been sent; its URL is the GET's URL
\* followed by ?expiration_ttl=61.
C15_Witness ==
    \E t \in Tasks :
        /\ task[t].op = "put_kv_value" /\ task[t].sent = 1
        /\ task[t].req.url = ExpectedUrl(task[t].path) \o <<"?expiration_ttl=", "6", "1">>
        /\ task[t].ttl = SomeTTL(61)

\* C15 witness for None: a PUT without TTL has been sent to the bare URL.
C15_WitnessNone ==
    \E t \in Tasks :
        /\ task[t].op = "put_kv_value" /\ task[t].sent = 1
        /\ ~task[t].ttl.some
        /\ task[t].req.url = get_request(task[t].path).url

\* C16: normalization removes exactly one leading '/'. A lookup_key of a
\* path that starts with "//" looks up the path without its first '/',
\* which still starts with '/': it never fails with EmptyKey (also for
\* "//"), on a whole index it returns what is stored under that "/k" form,
\* and so Ok(None) when no key of the index starts with '/', even when k
\* itself is a key.
C16_OneSlashOnly ==
    \A t \in Tasks :
        (/\ Finished(t, "lookup_key")
         /\ Len(task[t].path) >= 2
         /\ task[t].path[1] = "/" /\ task[t].path[2] = "/") =>
            LET r == task[t]
                slashK == Tail(r.path) IN
            /\ r.norm = slashK
            /\ r.res # Err("EmptyKey", <<>>)
            /\ WellFormed =>
                  r.res = IF slashK \in DOMAIN producer.index
                          THEN OkSome(producer.index[slashK]) ELSE OkNone
            /\ (WellFormed /\ \A k \in DOMAIN producer.index : k = <<>> \/ k[1] # "/")
                  => r.res = OkNone

\* C16 witness: lookup_key("//a") returned Ok(None) on an index that holds
\* the key "a" and no key with a leading '/'.
C16_Witness ==
    \E t \in Tasks :
        /\ Finished(t, "lookup_key") /\ WellFormed
        /\ task[t].path = <<"/", "/", "a">>
        /\ task[t].norm = <<"/", "a">>
        /\ <<"a">> \in DOMAIN producer.index
        /\ \A k \in DOMAIN producer.index : k = <<>> \/ k[1] # "/"
        /\ task[t].res = OkNone

\* C16 witness for "//": lookup_key("//") looked up "/" and missed.
C16_WitnessSlashes ==
    \E t \in Tasks :
        /\ Finished(t, "lookup_key") /\ WellFormed
        /\ task[t].path = <<"/", "/">>
        /\ task[t].norm = <<"/">>
        /\ task[t].res = OkNone

\* The two store operations.
StoreOps == {"get_kv_value", "put_kv_value"}

\* The result of a finished store call r, from its arguments and the
\* store's answer alone.
StoreOutcome(r) ==
    IF r.op = "get_kv_value"
    THEN CASE r.io \in {"send_failed", "body_failed"} -> r.res = Err("KVHttp", <<>>)
           [] r.io = "status" ->
                  r.res = Err("KVKeyNotFound", [key |-> r.path, status |-> r.status])
           [] r.io = "body" -> r.res = Ok(r.body)
           [] OTHER -> FALSE
    ELSE CASE r.io = "none" ->
                  (r.ttl.some /\ r.ttl.val < 60 /\ r.res = Err("TTLTooShort", <<>>))
           [] r.io \in {"send_failed", "body_failed"} -> r.res = Err("KVHttp", <<>>)
           [] r.io = "body" ->
                  IF r.ack.success THEN r.res = OkUnit
                  ELSE r.res.tag = "Err" /\ r.res.err = "Message"
           [] OTHER -> FALSE

\* C17: the store operations are independent of the index. No step of a
\* get_kv_value or put_kv_value call (its start, its request, the answers it
\* receives, its return) changes the blob, the cell, the cell's borrow flag
\* or the number of deserializations, such a call never deserializes, and
\* when it finishes its result is given by its arguments and the store's
\* answer alone, whether the index is not yet loaded, loaded or malformed.
C17_StoreIgnoresIndex ==
    [][\A t \in Tasks :
          (task'[t] # task[t] /\ (task[t].op \in StoreOps \/ task'[t].op \in StoreOps)) =>
              /\ index' = index /\ map' = map /\ borrow' = borrow
              /\ attempts' = attempts
              /\ task'[t].deser = 0 /\ task'[t].norm = <<>>
              /\ task'[t].pc # "done" \/ StoreOutcome(task'[t])]_vars

\* C17 witness: on a resolver whose malformed blob has already failed a
\* deserialization, a get_kv_value has returned the body the store sent.
C17_Witness ==
    \E t \in Tasks :
        /\ ~WellFormed /\ attempts >= 1 /\ ~map.some
        /\ Finished(t, "get_kv_value") /\ task[t].io = "body"
        /\ task[t].res = Ok(task[t].body)

\* C17 witness on a loaded index: a put_kv_value was acknowledged.
C17_WitnessLoaded ==
    \E t \in Tasks :
        /\ map.some
        /\ Finished(t, "put_kv_value") /\ task[t].res = OkUnit

\* C18: the empty-key check precedes deserialization. The first step of a
\* lookup_key or get_asset whose normalized path is empty ends the call with
\* EmptyKey, and no step of such a call changes the index cell, borrows it,
\* deserializes the blob or sends a request: also when the blob is
\* malformed and nothing has been deserialized yet.
C18_EmptyKeyFirst ==
    [][\A t \in Tasks :
          (/\ task[t].op \in {"lookup_key", "get_asset"}
           /\ NormalForm(task[t].path) = <<>>
           /\ task'[t] # task[t]) =>
              /\ map' = map /\ borrow' = borrow /\ attempts' = attempts
              /\ task'[t].deser = 0 /\ task'[t].sent = 0
              /\ task[t].pc = "lookup_key" =>
                    (task'[t].pc = "done" /\ task'[t].res = Err("EmptyKey", <<>>))
              /\ task[t].pc # "lookup_key" =>
                    (task[t].pc = "done" /\ task'[t].pc = "idle")]_vars

\* C18 witness: get_asset("/") returned EmptyKey on a resolver whose blob is
\* malformed and still undetected: nothing was deserialized, the cell is
\* 'not yet loaded'.
C18_Witness ==
    \E t \in Tasks :
        /\ ~WellFormed /\ attempts = 0 /\ ~map.some /\ borrow = 0
        /\ Finished(t, "get_asset") /\ task[t].path = <<"/">>
        /\ task[t].res = Err("EmptyKey", <<>>) /\ task[t].deser = 0

\* C19: the result of put_kv_value does not depend on the HTTP status. A
\* finished put_kv_value is Ok(()) or one of the errors Message, KVHttp and
\* TTLTooShort, never KVKeyNotFound; a status alone never ends the call;
\* and once the body parsed as an acknowledgment the result is Ok(()) exactly
\* when its success flag is true, so also under a non-2xx status.
C19_PutIgnoresStatus ==
    \A t \in Tasks :
        task[t].op = "put_kv_value" =>
            LET r == task[t] IN
            /\ r.io = "status" => r.pc = "put_await_json"
            /\ r.pc = "done" =>
                  /\ \/ r.res.tag = "OkUnit"
                     \/ /\ r.res.tag = "Err"
                        /\ r.res.err \in {"Message", "KVHttp", "TTLTooShort"}
                  /\ r.io = "body" => ((r.res = OkUnit) <=> r.ack.success)
                  /\ (r.io = "body" /\ r.status \div 100 # 2 /\ r.ack.success)
                        => r.res = OkUnit

\* C19 witness: a PUT answered 404 with a body that acknowledges success
\* returned Ok(()).
C19_Witness ==
    \E t \in Tasks :
        /\ Finished(t, "put_kv_value") /\ task[t].io = "body"
        /\ task[t].status = 404 /\ task[t].ack.success
        /\ task[t].res = OkUnit

\* C20: lookup_key is history-independent. In every reachable state of a
\* resolver, whatever calls came before (lookups that hit, missed or failed,
\* fetches, writes, failed or successful deserializations), a finished
\* lookup_key(p) has the result that the blob and p alone determine:
\* EmptyKey for an empty normalized path, DeserializeAssets for a malformed
\* blob, and otherwise the entry stored under the normalized path or
\* Ok(None); the cell, when loaded, holds the index that was serialized.
C20_HistoryIndependent ==
    /\ map.some => map.val = producer.index
    /\ \A t \in Tasks :
          Finished(t, "lookup_key") =>
              /\ task[t].norm = NormalForm(task[t].path)
              /\ task[t].res = LookupAlone(task[t].path)

\* C20 witness: a lookup_key answered from the memoized index (the
\* deserialization was made by an earlier call) returned the stored entry.
C20_Witness ==
    \E t \in Tasks :
        /\ WellFormed /\ map.some /\ attempts = 1
        /\ Finished(t, "lookup_key") /\ task[t].deser = 0
        /\ task[t].res.tag = "OkSome"
        /\ task[t].res = LookupAlone(task[t].path)

=============================================================================
